---------------------------- MODULE Spec2Model ----------------------------
(***************************************************************************)
(* PresetRenameHistory (src/libslic3r/PresetRenameHistory.{hpp,cpp}): the  *)
(* rename-history store of presets and its resolver.                       *)
(*                                                                         *)
(* A std::string is modelled by a TLA+ string, "" being the empty string.  *)
(* A std::optional<std::string> is a record [has_value, value].  The       *)
(* persisted file is either absent, unparsable, or a JSON document whose   *)
(* "entries" member (when present) is a sequence of JSON values; a JSON    *)
(* object is modelled by its four members "type", "old", "new" and         *)
(* "timestamp", each missing, a string or a number.                        *)
(***************************************************************************)
EXTENDS Naturals, Sequences, FiniteSets

VARIABLES
    m_entries,   \* PresetRenameHistory::m_entries of the running process
    file,        \* the content of rename_history.json (m_path) on disk
    last         \* the last call made on the instance, with its arguments and outcome

vars == <<m_entries, file, last>>

----------------------------------------------------------------------------
(* Preset::Type, as far as PresetRenameHistory tells its values apart.     *)

TYPE_INVALID == "TYPE_INVALID"

TYPE_PRINTER == "TYPE_PRINTER"

TYPE_FILAMENT == "TYPE_FILAMENT"

\* Any enumerator of Preset::Type other than the three above (the `default:'
\* branch of type_to_string).
TYPE_PRINT == "TYPE_PRINT"

kMaxResolveDepth == 32

----------------------------------------------------------------------------
(* std::optional<std::string>                                              *)

nullopt == [has_value |-> FALSE, value |-> ""]

Some(s) == [has_value |-> TRUE, value |-> s]

\* struct RenameHistoryEntry
RenameHistoryEntry(type, old_name, new_name, timestamp) ==
    [type |-> type, old_name |-> old_name, new_name |-> new_name,
     timestamp |-> timestamp]

----------------------------------------------------------------------------
(* 4.3 Type taxonomy                                                       *)

type_to_string(type) ==
    CASE type = TYPE_PRINTER  -> "printer"
      [] type = TYPE_FILAMENT -> "filament"
      [] OTHER                -> "unknown"

type_from_string(type) ==
    IF type = "printer" THEN TYPE_PRINTER
    ELSE IF type = "filament" THEN TYPE_FILAMENT
    ELSE TYPE_INVALID

----------------------------------------------------------------------------
(* JSON values of the persisted document                                   *)

JMissing == [k |-> "missing", s |-> "", n |-> 0]

JStr(s) == [k |-> "string", s |-> s, n |-> 0]

JNum(n) == [k |-> "number", s |-> "", n |-> n]

\* A JSON object with the four members
JObject(type, old, new, timestamp) ==
    [is_object |-> TRUE, type |-> type, old |-> old, new |-> new,
     timestamp |-> timestamp]

\* An element of "entries" that is not an object (a number, a string, null)
JNotObject ==
    [is_object |-> FALSE, type |-> JMissing, old |-> JMissing, new |-> JMissing,
     timestamp |-> JMissing]

FileAbsent == [kind |-> "absent", has_entries |-> FALSE, entries |-> <<>>]

\* A file that cannot be parsed as JSON (garbage, or truncated to nothing)
FileCorrupt == [kind |-> "corrupt", has_entries |-> FALSE, entries |-> <<>>]

FileJson(has_entries, entries) ==
    [kind |-> "json", has_entries |-> has_entries, entries |-> entries]

\* nlohmann::json::value(key, default) with a string default: the default
\* when the key is missing, the string when it holds one, and a type_error
\* thrown when it holds a value of another type.
value_throws_string(j) == j.k # "missing" /\ j.k # "string"

value_string(j, default) == IF j.k = "missing" THEN default ELSE j.s

\* value("timestamp", 0ll)
value_throws_number(j) == j.k # "missing" /\ j.k # "number"

value_number(j, default) == IF j.k = "missing" THEN default ELSE j.n

----------------------------------------------------------------------------
(* 4.1 History store: load and save                                        *)

\* The four value() calls of one loop iteration: whether one of them throws
item_throws(item) ==
    \/ value_throws_string(item.type)
    \/ value_throws_string(item.old)
    \/ value_throws_string(item.new)
    \/ value_throws_number(item.timestamp)

\* The entry built from an object
item_entry(item) ==
    RenameHistoryEntry(type_from_string(value_string(item.type, "")),
                       value_string(item.old, ""),
                       value_string(item.new, ""),
                       value_number(item.timestamp, 0))

\* The test after which load() skips the entry
load_skips(entry) ==
    entry.type = TYPE_INVALID \/ entry.old_name = "" \/ entry.new_name = ""

\* The loop of load() from element i on, acc being m_entries so far.  An
\* exception leaves the loop (catch (...)) with what was appended before it.
RECURSIVE load_items(_, _, _)
load_items(items, i, acc) ==
    IF i > Len(items) THEN acc
    ELSE LET item == items[i] IN
         IF ~item.is_object THEN load_items(items, i + 1, acc)
         ELSE IF item_throws(item) THEN acc
         ELSE IF load_skips(item_entry(item)) THEN load_items(items, i + 1, acc)
         ELSE load_items(items, i + 1, Append(acc, item_entry(item)))

\* m_entries after load() on file content f
load(f) ==
    IF f.kind = "absent" THEN <<>>
    ELSE IF f.kind = "corrupt" THEN <<>>
    ELSE load_items(IF f.has_entries THEN f.entries ELSE <<>>, 1, <<>>)

\* The JSON object save() writes for an entry
save_item(entry) ==
    JObject(JStr(type_to_string(entry.type)), JStr(entry.old_name),
            JStr(entry.new_name), JNum(entry.timestamp))

\* a save() that writes the newest entry alone
save_newest_only(entries) ==
    FileJson(TRUE, IF entries = <<>> THEN <<>>
                   ELSE <<save_item(entries[Len(entries)])>>)

\* The document a successful save() leaves on disk
save(entries) ==
    FileJson(TRUE, [i \in 1..Len(entries) |-> save_item(entries[i])])

\* The file after save(): io is what the file system does with the write
\* ("ok"; "unchanged": create_directories throws or the stream cannot be
\* opened; "truncated": the file is opened with std::ios::trunc and the
\* write does not complete).
save_result(entries, f, io) ==
    CASE io = "ok"        -> save(entries)
      [] io = "unchanged" -> f
      [] OTHER            -> FileCorrupt

----------------------------------------------------------------------------
(* 4.2 Resolver                                                            *)

\* find_if over begin()..end(): the earliest match instead of the latest
find_if_forward(entries, i, type, current) ==
    LET S == {j \in 1..i : entries[j].type = type /\ entries[j].old_name = current}
    IN IF S = {} THEN 0 ELSE CHOOSE j \in S : \A k \in S : j <= k

\* the predicate without its test of the profile type
RECURSIVE find_if_any_type(_, _, _, _)
find_if_any_type(entries, i, type, current) ==
    IF i = 0 THEN 0
    ELSE IF entries[i].old_name = current THEN i
    ELSE find_if_any_type(entries, i - 1, type, current)

\* std::find_if(m_entries.rbegin(), m_entries.rend(), ...): the index of the
\* first match scanning from i down to 1, 0 standing for rend().
RECURSIVE find_if_reverse(_, _, _, _)
find_if_reverse(entries, i, type, current) ==
    IF i = 0 THEN 0
    ELSE IF entries[i].type = type /\ entries[i].old_name = current THEN i
    ELSE find_if_reverse(entries, i - 1, type, current)

\* the loop leaving after its first hop
resolve_loop_one_hop(entries, type, current, visited, changed, depth) ==
    LET it == find_if_reverse(entries, Len(entries), type, current) IN
    IF it = 0
    THEN [current |-> current, changed |-> changed, lookups |-> depth + 1]
    ELSE [current |-> entries[it].new_name,
          changed |-> entries[it].new_name \notin visited, lookups |-> depth + 1]

\* the loop running while depth <= kMaxResolveDepth
RECURSIVE resolve_loop_inclusive(_, _, _, _, _, _)
resolve_loop_inclusive(entries, type, current, visited, changed, depth) ==
    IF ~(depth <= kMaxResolveDepth)
    THEN [current |-> current, changed |-> changed, lookups |-> depth]
    ELSE LET it == find_if_reverse(entries, Len(entries), type, current) IN
         IF it = 0
         THEN [current |-> current, changed |-> changed, lookups |-> depth + 1]
         ELSE LET next == entries[it].new_name IN
              IF next \in visited
              THEN [current |-> next, changed |-> changed, lookups |-> depth + 1]
              ELSE resolve_loop_inclusive(entries, type, next,
                                          visited \cup {next}, TRUE, depth + 1)

\* the loop testing `visited' before it assigns `current'
RECURSIVE resolve_loop_keep_previous(_, _, _, _, _, _)
resolve_loop_keep_previous(entries, type, current, visited, changed, depth) ==
    IF ~(depth < kMaxResolveDepth)
    THEN [current |-> current, changed |-> changed, lookups |-> depth]
    ELSE LET it == find_if_reverse(entries, Len(entries), type, current) IN
         IF it = 0
         THEN [current |-> current, changed |-> changed, lookups |-> depth + 1]
         ELSE LET next == entries[it].new_name IN
              IF next \in visited
              THEN [current |-> current, changed |-> changed,
                    lookups |-> depth + 1]
              ELSE resolve_loop_keep_previous(entries, type, next,
                                              visited \cup {next}, TRUE,
                                              depth + 1)

\* The for loop of resolve(); lookups counts the find_if calls made.
RECURSIVE resolve_loop(_, _, _, _, _, _)
resolve_loop(entries, type, current, visited, changed, depth) ==
    IF ~(depth < kMaxResolveDepth)
    THEN [current |-> current, changed |-> changed, lookups |-> depth]
    ELSE LET it == find_if_reverse(entries, Len(entries), type, current) IN
         IF it = 0
         THEN [current |-> current, changed |-> changed, lookups |-> depth + 1]
         ELSE LET next == entries[it].new_name IN
              IF next \in visited
              THEN [current |-> next, changed |-> changed, lookups |-> depth + 1]
              ELSE resolve_loop(entries, type, next, visited \cup {next}, TRUE,
                                depth + 1)

\* the result policy without `current != name'
resolve_any_change(entries, type, name) ==
    IF type = TYPE_INVALID \/ name = "" THEN nullopt
    ELSE LET w == resolve_loop(entries, type, name, {name}, FALSE, 0) IN
         IF w.changed THEN Some(w.current) ELSE nullopt

\* The loop's outcome for resolve(type, name)
resolve_walk(entries, type, name) ==
    resolve_loop(entries, type, name, {name}, FALSE, 0)

resolve(entries, type, name) ==
    IF type = TYPE_INVALID \/ name = "" THEN nullopt
    ELSE LET w == resolve_walk(entries, type, name) IN
         IF w.changed /\ w.current # name THEN Some(w.current) ELSE nullopt

----------------------------------------------------------------------------
(* The calls made on the instance                                          *)

\* What `last' records of a call: its arguments, resolve's return value
\* (ret), the outcome of the save() it made (io, "none" when it made none;
\* "throws" for a load() that an exception left), m_entries and the file
\* before it, and whether the file was, before it, the product of a
\* successful save() of m_entries (saved).
Call(op, type, old_name, new_name, ret, io, before, file_before, saved) ==
    [op |-> op, type |-> type, old_name |-> old_name, new_name |-> new_name,
     ret |-> ret, io |-> io, before |-> before, file_before |-> file_before,
     saved |-> saved]

\* the guard clause without `old_name == new_name'
add_entry_accepts_same_name(type, old_name, new_name) ==
    type = TYPE_INVALID \/ old_name = "" \/ new_name = ""

\* The guard clause of add_entry()
add_entry_rejects(type, old_name, new_name) ==
    type = TYPE_INVALID \/ old_name = "" \/ new_name = "" \/ old_name = new_name

\* instance() has returned the instance: its constructor was not left by an
\* exception (instance() runs the constructor again until it completes)
InstanceExists == ~(last.op = "load" /\ last.io = "throws")

\* an add_entry() that takes its record back when the write fails
add_entry_rollback(type, old_name, new_name, clock, ios) ==
    /\ InstanceExists
    /\ IF add_entry_rejects(type, old_name, new_name)
       THEN /\ last' = Call("add_entry", type, old_name, new_name, nullopt,
                            "none", m_entries, file, last.saved)
            /\ UNCHANGED <<m_entries, file>>
       ELSE \E now \in clock, io \in ios :
               /\ m_entries' =
                     IF io = "ok"
                     THEN Append(m_entries,
                                 RenameHistoryEntry(type, old_name, new_name, now))
                     ELSE m_entries
               /\ file' = save_result(m_entries', file, io)
               /\ last' = Call("add_entry", type, old_name, new_name, nullopt,
                               io, m_entries, file, io = "ok")

\* an add_entry() that inserts its record at the front
add_entry_prepend(type, old_name, new_name, clock, ios) ==
    /\ InstanceExists
    /\ IF add_entry_rejects(type, old_name, new_name)
       THEN /\ last' = Call("add_entry", type, old_name, new_name, nullopt,
                            "none", m_entries, file, last.saved)
            /\ UNCHANGED <<m_entries, file>>
       ELSE \E now \in clock, io \in ios :
               /\ m_entries' =
                     <<RenameHistoryEntry(type, old_name, new_name, now)>>
                        \o m_entries
               /\ file' = save_result(m_entries', file, io)
               /\ last' = Call("add_entry", type, old_name, new_name, nullopt,
                               io, m_entries, file, io = "ok")

\* add_entry(type, old_name, new_name), the clock reading one of `clock' and
\* the file system answering the write with one of `ios'
add_entry(type, old_name, new_name, clock, ios) ==
    /\ InstanceExists
    /\ IF add_entry_rejects(type, old_name, new_name)
       THEN /\ last' = Call("add_entry", type, old_name, new_name, nullopt,
                            "none", m_entries, file, last.saved)
            /\ UNCHANGED <<m_entries, file>>
       ELSE \E now \in clock, io \in ios :
               /\ m_entries' = Append(m_entries,
                                      RenameHistoryEntry(type, old_name,
                                                         new_name, now))
               /\ file' = save_result(m_entries', file, io)
               /\ last' = Call("add_entry", type, old_name, new_name, nullopt,
                               io, m_entries, file, io = "ok")

\* resolve(type, name) const
Resolve(type, name) ==
    /\ InstanceExists
    /\ last' = Call("resolve", type, name, "", resolve(m_entries, type, name),
                    "none", m_entries, file, last.saved)
    /\ UNCHANGED <<m_entries, file>>

\* What the file system answers to create_directories(m_path.parent_path())
\* and exists(m_path), which load() calls before its try block: "ok", or
\* "throws" (a boost::filesystem::filesystem_error: the directory cannot be
\* created, or m_path cannot be examined).
LoadOutcomes == {"ok", "throws"}

\* The process ends and the next one constructs the instance:
\* PresetRenameHistory() calls load().  An exception of load() leaves the
\* constructor, and no instance exists.
Construct ==
    /\ \E fs \in LoadOutcomes :
          IF fs = "throws"
          THEN /\ m_entries' = <<>>
               /\ last' = Call("load", TYPE_INVALID, "", "", nullopt, "throws",
                               m_entries, file, last.saved)
          ELSE /\ m_entries' = load(file)
               /\ last' = Call("load", TYPE_INVALID, "", "", nullopt, "none",
                               m_entries, file, last.saved)
    /\ UNCHANGED file

\* The state after the first construction, on a file among `files'
InitOn(files) ==
    /\ file \in files
    /\ m_entries = load(file)
    /\ last = Call("load", TYPE_INVALID, "", "", nullopt, "none", <<>>, file, FALSE)

----------------------------------------------------------------------------
(* Spec: the store with every profile type and every outcome of a write    *)

MaxEntries == 2

Types == {TYPE_INVALID, TYPE_PRINT, TYPE_FILAMENT, TYPE_PRINTER}

Names == {"", "A", "B"}

Timestamps == {1}

IoOutcomes == {"ok", "unchanged", "truncated"}

Init == InitOn({FileAbsent, FileCorrupt})

AddEntry ==
    /\ Len(m_entries) < MaxEntries
    /\ \E type \in Types, old_name \in Names, new_name \in Names :
          add_entry(type, old_name, new_name, Timestamps, IoOutcomes)

CallResolve == \E type \in Types, name \in Names : Resolve(type, name)

Next == AddEntry \/ CallResolve \/ Construct

Spec == Init /\ [][Next]_vars

----------------------------------------------------------------------------
(* SpecResolve: histories built by add_entry alone, over three names and   *)
(* the two persisted profile types, every write succeeding                 *)

MaxResolveEntries == 3

ResolveNames == {"A", "B", "C"}

ResolveInit == InitOn({FileAbsent})

ResolveAddEntry ==
    /\ Len(m_entries) < MaxResolveEntries
    /\ \E type \in {TYPE_PRINTER, TYPE_FILAMENT},
          old_name \in ResolveNames, new_name \in ResolveNames :
          add_entry(type, old_name, new_name, {1}, {"ok"})

ResolveCallResolve ==
    \E type \in {TYPE_INVALID, TYPE_PRINTER, TYPE_FILAMENT},
       name \in ResolveNames \cup {""} : Resolve(type, name)

ResolveNext == ResolveAddEntry \/ ResolveCallResolve

SpecResolve == ResolveInit /\ [][ResolveNext]_vars

----------------------------------------------------------------------------
(* SpecChain: one chain n00 -> n01 -> n02 -> ... of printer renames,       *)
(* recorded link by link, longer than the hop limit, and possibly closed   *)
(* into a cycle by a last rename back to n00                               *)

MaxChain == 34

ChainStarts == 3

ChainNames ==
    << "n00", "n01", "n02", "n03", "n04", "n05", "n06", "n07", "n08",
       "n09", "n10", "n11", "n12", "n13", "n14", "n15", "n16", "n17",
       "n18", "n19", "n20", "n21", "n22", "n23", "n24", "n25", "n26",
       "n27", "n28", "n29", "n30", "n31", "n32", "n33", "n34", "n35",
       "n36" >>

ChainInit == InitOn({FileAbsent})

\* The next link of the chain, or the link from its end back to n00; no
\* call follows one that closed the chain.
ChainAddEntry ==
    /\ Len(m_entries) < MaxChain
    /\ IF m_entries = <<>> THEN TRUE
       ELSE m_entries[Len(m_entries)].new_name # ChainNames[1]
    /\ \E new_name \in {ChainNames[Len(m_entries) + 2], ChainNames[1]} :
          add_entry(TYPE_PRINTER, ChainNames[Len(m_entries) + 1], new_name,
                    {1}, {"ok"})

\* resolve() on one of the first ChainStarts names of the chain
ChainCallResolve ==
    \E type \in {TYPE_PRINTER, TYPE_FILAMENT}, i \in 1..ChainStarts :
       Resolve(type, ChainNames[i])

ChainNext == ChainAddEntry \/ ChainCallResolve

SpecChain == ChainInit /\ [][ChainNext]_vars

----------------------------------------------------------------------------
(* SpecLoad: the instance constructed on a hand-written or damaged file    *)

MaxFileLen == 3

\* {"type":"printer","old":"A","new":"B","timestamp":1}
ItemPrinterAB == JObject(JStr("printer"), JStr("A"), JStr("B"), JNum(1))

\* {"type":"filament","old":"B","new":"A","timestamp":2}
ItemFilamentBA == JObject(JStr("filament"), JStr("B"), JStr("A"), JNum(2))

\* {"type":"printer","old":"B","new":"A"}
ItemNoTimestamp == JObject(JStr("printer"), JStr("B"), JStr("A"), JMissing)

\* {"type":"printer","old":"A","new":"A","timestamp":1}
ItemSameName == JObject(JStr("printer"), JStr("A"), JStr("A"), JNum(1))

\* {"type":"printer","old":"A","timestamp":1}
ItemNoNew == JObject(JStr("printer"), JStr("A"), JMissing, JNum(1))

\* {"type":"printer","old":"","new":"B","timestamp":1}
ItemEmptyOld == JObject(JStr("printer"), JStr(""), JStr("B"), JNum(1))

\* {"type":"unknown","old":"A","new":"B","timestamp":1}
ItemUnknownType == JObject(JStr("unknown"), JStr("A"), JStr("B"), JNum(1))

\* {"type":"printer","old":5,"new":"B","timestamp":1}
ItemNumberOld == JObject(JStr("printer"), JNum(5), JStr("B"), JNum(1))

\* {"type":"printer","old":"A","new":"B","timestamp":"x"}
ItemStringTimestamp == JObject(JStr("printer"), JStr("A"), JStr("B"), JStr("x"))

LoadItems ==
    {ItemPrinterAB, ItemFilamentBA, ItemNoTimestamp, ItemSameName, JNotObject,
     ItemNoNew, ItemEmptyOld, ItemUnknownType, ItemNumberOld, ItemStringTimestamp}

LoadFiles ==
    {FileAbsent, FileCorrupt, FileJson(FALSE, <<>>)}
    \cup {FileJson(TRUE, items) :
            items \in UNION {[1..n -> LoadItems] : n \in 0..MaxFileLen}}

LoadInit == InitOn(LoadFiles)

LoadAddEntry ==
    /\ Len(m_entries) < MaxEntries
    /\ \E old_name \in {"A", "B"}, new_name \in {"A", "B"} :
          add_entry(TYPE_PRINTER, old_name, new_name, {1}, {"ok", "unchanged"})

LoadCallResolve ==
    \E type \in {TYPE_PRINTER, TYPE_FILAMENT}, name \in {"A", "B"} :
       Resolve(type, name)

LoadNext == LoadAddEntry \/ LoadCallResolve \/ Construct

SpecLoad == LoadInit /\ [][LoadNext]_vars

----------------------------------------------------------------------------
(* Properties                                                              *)

\* The last call was an add_entry() that appended a record
Accepted ==
    /\ last.op = "add_entry"
    /\ last.type # TYPE_INVALID
    /\ last.old_name # "" /\ last.new_name # ""
    /\ last.old_name # last.new_name

\* Whether a record of the type renames `name' away
HasRecord(entries, type, name) ==
    \E i \in 1..Len(entries) :
       entries[i].type = type /\ entries[i].old_name = name

\* The position of the record of the type inserted last with old_name =
\* name, 0 when there is none
Latest(entries, type, name) ==
    LET S == {i \in 1..Len(entries) :
                 entries[i].type = type /\ entries[i].old_name = name}
    IN IF S = {} THEN 0 ELSE CHOOSE i \in S : \A j \in S : j <= i

\* The names reached from `name' by following the latest records of the
\* type, first hop first, for k hops or until no record leaves the name
\* reached
RECURSIVE Orbit(_, _, _, _)
Orbit(entries, type, name, k) ==
    IF k = 0 \/ Latest(entries, type, name) = 0 THEN <<>>
    ELSE LET next == entries[Latest(entries, type, name)].new_name
         IN <<next>> \o Orbit(entries, type, next, k - 1)

Distinct(names) ==
    \A i, j \in 1..Len(names) : i # j => names[i] # names[j]

\* Following the latest records from `name' comes back to it within k hops
LeadsBack(entries, type, name, k) ==
    LET o == Orbit(entries, type, name, k)
    IN \E j \in 1..Len(o) : o[j] = name

\* C1 as stated: right after any accepted add_entry(type, old, new),
\* resolve(type, old) returns new.  (Fails: the walk goes on from new when
\* an earlier record renames new away.)
C1_Original ==
    Accepted => resolve(m_entries, last.type, last.old_name) = Some(last.new_name)

\* C1 amended: right after an accepted add_entry(type, old, new), when no
\* record of that type in the history has old_name = new, resolve(type, old)
\* returns new.
C1_AddThenResolve ==
    (Accepted /\ ~HasRecord(m_entries, last.type, last.new_name))
        => resolve(m_entries, last.type, last.old_name) = Some(last.new_name)

\* C1's case: a third record, added after an earlier rename of the same
\* old name, decides the answer
C1_Witness ==
    /\ Accepted
    /\ Len(m_entries) = 3
    /\ ~HasRecord(m_entries, last.type, last.new_name)
    /\ HasRecord(last.before, last.type, last.old_name)
    /\ resolve(last.before, last.type, last.old_name) # Some(last.new_name)
    /\ resolve(m_entries, last.type, last.old_name) = Some(last.new_name)

\* C2: when the latest records of type T lead from n0 through distinct
\* names n1, ..., nk, with 1 <= k <= kMaxResolveDepth and no record leaving
\* nk, resolve(T, n0) returns nk.
C2_ChainFollowing ==
    last.op = "resolve" =>
        LET o == Orbit(m_entries, last.type, last.old_name, kMaxResolveDepth + 1)
        IN (/\ Len(o) >= 1
            /\ Len(o) <= kMaxResolveDepth
            /\ Distinct(<<last.old_name>> \o o))
           => last.ret = Some(o[Len(o)])

\* C2's case: a chain of exactly kMaxResolveDepth hops resolved from its
\* first name to its last
C2_Witness ==
    /\ last.op = "resolve"
    /\ last.type = TYPE_PRINTER
    /\ last.old_name = ChainNames[1]
    /\ Len(m_entries) = kMaxResolveDepth
    /\ m_entries[Len(m_entries)].new_name = ChainNames[kMaxResolveDepth + 1]
    /\ last.ret = Some(ChainNames[kMaxResolveDepth + 1])

\* C3 as stated: whenever following the latest records of type T from n
\* leads back to n, after however many hops, resolve(T, n) returns nullopt.
\* (Fails on a cycle of more than kMaxResolveDepth names.)
C3_Original ==
    (/\ last.op = "resolve"
     /\ LeadsBack(m_entries, last.type, last.old_name, Len(m_entries)))
        => last.ret = nullopt

\* C3 amended: whenever following the latest records of type T from n leads
\* back to n within kMaxResolveDepth hops, resolve(T, n) returns nullopt.
C3_CycleToOrigin ==
    (/\ last.op = "resolve"
     /\ LeadsBack(m_entries, last.type, last.old_name, kMaxResolveDepth))
        => last.ret = nullopt

\* C3's case: a cycle of kMaxResolveDepth names, resolved from a name on it
C3_Witness ==
    /\ last.op = "resolve"
    /\ last.type = TYPE_PRINTER
    /\ last.old_name = ChainNames[2]
    /\ Len(m_entries) = kMaxResolveDepth
    /\ m_entries[Len(m_entries)].new_name = ChainNames[1]
    /\ last.ret = nullopt

\* C4: add_entry(T1, old, new), accepted or not, leaves resolve(T2, n) as it
\* was for every name n and every type T2 other than T1.
C4_TypeIsolation ==
    last.op = "add_entry" =>
        \A type \in Types \ {last.type}, name \in ResolveNames \cup {""} :
           resolve(m_entries, type, name) = resolve(last.before, type, name)

\* C4's case: a record is added for a name that the other type resolves
C4_Witness ==
    /\ Accepted
    /\ m_entries # last.before
    /\ \E type \in Types \ {last.type} :
          /\ resolve(m_entries, type, last.old_name).has_value
          /\ resolve(m_entries, type, last.old_name)
                # resolve(m_entries, last.type, last.old_name)

\* C5 as stated: load() right after an add_entry() whose save() succeeded
\* leaves m_entries as it was.  (Fails for a record of a type other than
\* printer and filament, which is written as "unknown" and dropped.)
C5_RoundTrip ==
    (last.op = "load" /\ last.io = "none" /\ last.saved)
        => m_entries = last.before

\* An element of "entries" that C6 counts as well-formed
WellFormedItem(item) ==
    /\ item.is_object
    /\ item.type.k = "string" /\ item.type.s \in {"printer", "filament"}
    /\ item.old.k = "string" /\ item.old.s # ""
    /\ item.new.k = "string" /\ item.new.s # ""
    /\ item.timestamp.k \in {"missing", "number"}

\* The record a well-formed element stands for
ItemRecord(item) ==
    [type |-> IF item.type.s = "printer" THEN TYPE_PRINTER ELSE TYPE_FILAMENT,
     old_name |-> item.old.s, new_name |-> item.new.s,
     timestamp |-> IF item.timestamp.k = "number" THEN item.timestamp.n ELSE 0]

\* The records of the well-formed elements, in file order
Retained(items) ==
    LET kept == SelectSeq(items, WellFormedItem)
    IN [i \in 1..Len(kept) |-> ItemRecord(kept[i])]

\* C6 as stated: load() of a parsable document retains exactly its
\* well-formed elements, in file order, wherever the malformed ones sit.
\* (Fails: a member of the wrong JSON type ends the loop.)
C6_MalformedTolerance ==
    (/\ last.op = "load" /\ last.io = "none"
     /\ file.kind = "json" /\ file.has_entries)
        => m_entries = Retained(file.entries)

\* C7 as stated: every record of m_entries has a type other than
\* TYPE_INVALID, non-empty names and old_name != new_name.  (Fails: load()
\* keeps an element whose "old" and "new" are equal.)
C7_HistoryInvariant ==
    \A i \in 1..Len(m_entries) :
       /\ m_entries[i].type # TYPE_INVALID
       /\ m_entries[i].old_name # ""
       /\ m_entries[i].new_name # ""
       /\ m_entries[i].old_name # m_entries[i].new_name

\* C8: add_entry() with TYPE_INVALID, an empty old_name, an empty new_name
\* or old_name = new_name leaves m_entries and the file as they were and
\* calls no save().
C8_RejectedAddNoOp ==
    (/\ last.op = "add_entry"
     /\ \/ last.type = TYPE_INVALID
        \/ last.old_name = ""
        \/ last.new_name = ""
        \/ last.old_name = last.new_name)
        => /\ m_entries = last.before
           /\ file = last.file_before
           /\ last.io = "none"

\* C8's case: a rename of a name to itself is rejected on a history that
\* holds a record and has a file
C8_Witness ==
    /\ last.op = "add_entry"
    /\ last.type = TYPE_PRINTER
    /\ last.old_name = "A" /\ last.new_name = "A"
    /\ Len(m_entries) = 1
    /\ file = save(m_entries)
    /\ m_entries = last.before

\* C9: resolve() makes at most kMaxResolveDepth lookups; and when the
\* latest records lead from n0 through more than kMaxResolveDepth further
\* names, all distinct, resolve(T, n0) returns the name kMaxResolveDepth
\* hops from n0.
C9_HopBound ==
    last.op = "resolve" =>
        /\ (last.type # TYPE_INVALID /\ last.old_name # "")
              => resolve_walk(m_entries, last.type, last.old_name).lookups
                    <= kMaxResolveDepth
        /\ LET o == Orbit(m_entries, last.type, last.old_name,
                          kMaxResolveDepth + 1)
           IN (Len(o) = kMaxResolveDepth + 1 /\ Distinct(<<last.old_name>> \o o))
              => last.ret = Some(o[kMaxResolveDepth])

\* C9's case: a chain of more than kMaxResolveDepth hops resolved from its
\* first name
C9_Witness ==
    /\ last.op = "resolve"
    /\ last.type = TYPE_PRINTER
    /\ last.old_name = ChainNames[1]
    /\ Len(m_entries) > kMaxResolveDepth
    /\ m_entries[Len(m_entries)].new_name # ChainNames[1]
    /\ last.ret = Some(ChainNames[kMaxResolveDepth + 1])
    /\ resolve_walk(m_entries, last.type, last.old_name).lookups
          = kMaxResolveDepth

\* C10: resolve(T, n) returns nullopt when T is TYPE_INVALID, when n is
\* empty, and when no record of type T has old_name = n.
C10_NoRename ==
    (/\ last.op = "resolve"
     /\ \/ last.type = TYPE_INVALID
        \/ last.old_name = ""
        \/ ~HasRecord(m_entries, last.type, last.old_name))
        => last.ret = nullopt

\* C10's case: the name was renamed as a profile of another type only
C10_Witness ==
    /\ last.op = "resolve"
    /\ last.type # TYPE_INVALID /\ last.old_name # ""
    /\ ~HasRecord(m_entries, last.type, last.old_name)
    /\ \E i \in 1..Len(m_entries) : m_entries[i].old_name = last.old_name
    /\ last.ret = nullopt

\* The history without the records that a later record of the same type
\* and old_name shadows, from position i on
RECURSIVE KeepLatest(_, _)
KeepLatest(entries, i) ==
    IF i > Len(entries) THEN <<>>
    ELSE (IF Latest(entries, entries[i].type, entries[i].old_name) = i
          THEN <<entries[i]>> ELSE <<>>) \o KeepLatest(entries, i + 1)

\* C11: when several records of type T share old_name n, resolve(T, n)
\* returns the new_name of the one inserted last if no record leaves that
\* name; and every hop uses the latest record: resolve returns what it
\* returns on the history without the shadowed earlier records.
C11_LatestWins ==
    last.op = "resolve" =>
        /\ LET at == Latest(m_entries, last.type, last.old_name) IN
           (/\ at # 0
            /\ \E i \in 1..(at - 1) :
                  /\ m_entries[i].type = last.type
                  /\ m_entries[i].old_name = last.old_name
            /\ ~HasRecord(m_entries, last.type, m_entries[at].new_name))
               => last.ret = Some(m_entries[at].new_name)
        /\ last.ret = resolve(KeepLatest(m_entries, 1), last.type, last.old_name)

\* C11's case: two renames of the same old name to different names, the
\* later one answering
C11_Witness ==
    /\ last.op = "resolve"
    /\ \E i, j \in 1..Len(m_entries) :
          /\ i < j
          /\ j = Latest(m_entries, last.type, last.old_name)
          /\ m_entries[i].type = last.type
          /\ m_entries[i].old_name = last.old_name
          /\ m_entries[i].new_name # m_entries[j].new_name
          /\ ~HasRecord(m_entries, last.type, m_entries[i].new_name)
          /\ last.ret = Some(m_entries[j].new_name)

\* The token of a profile type in the persisted document (spec 6)
Token(type) ==
    IF type = TYPE_PRINTER THEN "printer"
    ELSE IF type = TYPE_FILAMENT THEN "filament"
    ELSE "unknown"

\* The document holds exactly the records of `entries', in their order
FileHolds(f, entries) ==
    /\ f.kind = "json" /\ f.has_entries
    /\ Len(f.entries) = Len(entries)
    /\ \A i \in 1..Len(entries) :
          /\ f.entries[i].is_object
          /\ f.entries[i].type = JStr(Token(entries[i].type))
          /\ f.entries[i].old = JStr(entries[i].old_name)
          /\ f.entries[i].new = JStr(entries[i].new_name)
          /\ f.entries[i].timestamp = JNum(entries[i].timestamp)

\* C12: after an accepted add_entry() whose write succeeds, the "entries"
\* array of the file holds exactly m_entries, record for record and in
\* insertion order.
C12_WholeFilePersistence ==
    (Accepted /\ last.io = "ok") => FileHolds(file, m_entries)

\* C12's case: the second record is written after the write of the first
\* one failed
C12_Witness ==
    /\ Accepted /\ last.io = "ok"
    /\ Len(m_entries) = 2
    /\ Len(last.before) = 1
    /\ last.file_before.kind # "json"
    /\ Len(file.entries) = 2

\* C13 as stated: every record of m_entries has profile_type printer or
\* filament.  (Fails: add_entry() rejects TYPE_INVALID alone.)
C13_StoredTypes ==
    \A i \in 1..Len(m_entries) :
       m_entries[i].type \in {TYPE_PRINTER, TYPE_FILAMENT}

\* The names of a walk from `name': the name, then those reached by
\* following the latest records for at most kMaxResolveDepth hops
Path(entries, type, name) ==
    <<name>> \o Orbit(entries, type, name, kMaxResolveDepth)

\* The first position of a path holding a name that an earlier position
\* holds, 0 when its names are distinct
FirstRevisit(p) ==
    LET R == {j \in 2..Len(p) : \E i \in 1..(j - 1) : p[i] = p[j]}
    IN IF R = {} THEN 0 ELSE CHOOSE j \in R : \A k \in R : j <= k

\* The name where the walk stops: the first revisited name, else the last
\* name of the path
WalkStop(p) == IF FirstRevisit(p) = 0 THEN p[Len(p)] ELSE p[FirstRevisit(p)]

\* C14: resolve(T, n) returns a name exactly when at least one hop was
\* taken and the walk stopped at a name other than n, and that name is the
\* one it returns; so it never returns n and never an empty name.
C14_ResultPolicy ==
    last.op = "resolve" =>
        LET p == Path(m_entries, last.type, last.old_name) IN
        /\ last.ret.has_value <=> (Len(p) >= 2 /\ WalkStop(p) # last.old_name)
        /\ last.ret.has_value =>
              /\ last.ret.value = WalkStop(p)
              /\ last.ret.value # last.old_name
              /\ last.ret.value # ""

\* C14's case: hops were taken and the walk stopped at the name it began
\* with
C14_Witness ==
    /\ last.op = "resolve"
    /\ FirstRevisit(Path(m_entries, last.type, last.old_name)) = 3
    /\ WalkStop(Path(m_entries, last.type, last.old_name)) = last.old_name
    /\ last.ret = nullopt

\* C15: an accepted add_entry() whose write fails still appends its record
\* after the records m_entries held, which stay as they were, and resolve
\* answers from it at once.
C15_WriteFailure ==
    (Accepted /\ last.io \in {"unchanged", "truncated"}) =>
        /\ Len(m_entries) = Len(last.before) + 1
        /\ SubSeq(m_entries, 1, Len(last.before)) = last.before
        /\ m_entries[Len(m_entries)].type = last.type
        /\ m_entries[Len(m_entries)].old_name = last.old_name
        /\ m_entries[Len(m_entries)].new_name = last.new_name
        /\ ~HasRecord(m_entries, last.type, last.new_name)
              => resolve(m_entries, last.type, last.old_name)
                    = Some(last.new_name)

\* C15's case: the write of a second record leaves a truncated file
C15_Witness ==
    /\ Accepted /\ last.io = "truncated"
    /\ Len(m_entries) = 2
    /\ file = FileCorrupt
    /\ resolve(m_entries, last.type, last.old_name) = Some(last.new_name)

\* C16 as stated: load() with no file, or with a file that cannot be parsed,
\* raises no error and leaves m_entries empty.  (Fails: create_directories
\* and exists are called outside the try block.)
C16_MissingOrCorruptFile ==
    (last.op = "load" /\ file.kind \in {"absent", "corrupt"})
        => (last.io = "none" /\ m_entries = <<>>)

\* C17: an accepted add_entry(type, old, new) leaves the earlier records in
\* place and adds exactly one record (type, old, new) at the end; a
\* rejected add_entry() and resolve() leave the sequence as it was.
C17_AppendOnly ==
    /\ Accepted =>
          /\ Len(m_entries) = Len(last.before) + 1
          /\ \A i \in 1..Len(last.before) : m_entries[i] = last.before[i]
          /\ m_entries[Len(m_entries)].type = last.type
          /\ m_entries[Len(m_entries)].old_name = last.old_name
          /\ m_entries[Len(m_entries)].new_name = last.new_name
    /\ (last.op = "add_entry" /\ ~Accepted) => m_entries = last.before
    /\ last.op = "resolve" => m_entries = last.before

\* C17's case: a second, different record follows the first
C17_Witness ==
    /\ Accepted /\ last.io = "ok"
    /\ Len(m_entries) = 2
    /\ m_entries[1] # m_entries[2]
    /\ m_entries[1] = last.before[1]

\* C18: when the walk from n lands on a name m that it already visited,
\* with m # n, resolve(T, n) returns m.
C18_CycleNotThroughOrigin ==
    last.op = "resolve" =>
        LET p == Path(m_entries, last.type, last.old_name) IN
        (FirstRevisit(p) # 0 /\ p[FirstRevisit(p)] # last.old_name)
           => last.ret = Some(p[FirstRevisit(p)])

\* C18's case: A -> B -> C -> B resolved from A: the revisited name differs
\* from the name before it
C18_Witness ==
    /\ last.op = "resolve"
    /\ LET p == Path(m_entries, last.type, last.old_name) IN
       /\ FirstRevisit(p) = 4
       /\ p[4] # p[1] /\ p[4] # p[3]
       /\ last.ret = Some(p[4])

\* The names that the records of the type mention
Mentioned(entries, type) ==
    {entries[i].old_name : i \in {j \in 1..Len(entries) : entries[j].type = type}}
    \cup
    {entries[i].new_name : i \in {j \in 1..Len(entries) : entries[j].type = type}}

\* C19: when the records of type T mention at most kMaxResolveDepth names
\* and resolve(T, n) returns m, resolve(T, m) returns nullopt.
C19_Idempotent ==
    (/\ last.op = "resolve"
     /\ last.ret.has_value
     /\ Cardinality(Mentioned(m_entries, last.type)) <= kMaxResolveDepth)
        => resolve(m_entries, last.type, last.ret.value) = nullopt

\* C19's case: a chain that mentions exactly kMaxResolveDepth names,
\* resolved from its first name to its last
C19_Witness ==
    /\ last.op = "resolve"
    /\ last.type = TYPE_PRINTER
    /\ last.old_name = ChainNames[1]
    /\ Cardinality(Mentioned(m_entries, last.type)) = kMaxResolveDepth
    /\ last.ret = Some(ChainNames[kMaxResolveDepth])
    /\ resolve(m_entries, last.type, last.ret.value) = nullopt

=============================================================================
